---- MODULE Spec2Model ----
(***************************************************************************)
(* django_h2: the per-connection HTTP/2 stream multiplexer.                *)
(*                                                                         *)
(* One connection (DjangoH2Protocol) with its h2 codec, its mapping of     *)
(* stream id -> Stream, and one asyncio handler task per completed         *)
(* request.  Codec events are delivered by data_received; handler tasks    *)
(* run on the same event loop, each step running a task from the point it  *)
(* was suspended at to its next suspension (or its end), as asyncio does.  *)
(***************************************************************************)
EXTENDS Integers, Sequences, FiniteSets, TLC

\* ------------------------------------------------------------------ bounds
\* the stream ids of the model (the peer's ids are odd and increasing)
StreamIds == {1, 3}
\* the stream the peer opens when it opens one stream only
FirstId == CHOOSE i \in StreamIds : \A j \in StreamIds : i <= j
\* FILE_UPLOAD_MAX_MEMORY_SIZE, scaled down
MaxRequestSize == 1
\* longest response body a view returns
MaxBody == 3
\* longest part the iterator of a streaming body yields
MaxPart == 1
\* largest flow-control window (connection or stream level) the peer grants
MaxWindow == 2
\* largest SETTINGS_MAX_FRAME_SIZE the peer announces, scaled down
MaxFrame == 2

VARIABLES
    streams,    \* BaseH2Protocol.streams: the ids in the mapping
    obj,        \* the Stream objects ever created, by id
    task,       \* the asyncio task of each Stream (Stream.handle_task)
    conn,       \* the h2 codec: windows, frame size, closed streams
    out,        \* per stream, what was handed to the codec, in order
    alive,      \* DjangoH2Protocol.alive
    transport,  \* "open" | "closed" | "lost"
    sig,        \* notifications emitted, per stream
    raised,     \* the exception that left a callback of the connection, or ""
    sup,        \* the task running DjangoH2Protocol.wait_shutdown
    goaway,     \* last_stream_id of the GOAWAY frame written, -1 if none was
    registered, \* the connection is in handler.connections
    wire        \* the calls made on the transport, in order, by the
                \* data_received that closed it; <<>> while none has

vars == <<streams, obj, task, conn, out, alive, transport, sig, raised,
          sup, goaway, registered, wire>>

\* ---------------------------------------------------------------- helpers
Min(a, b) == IF a < b THEN a ELSE b

Min3(a, b, c) == Min(a, Min(b, c))

RECURSIVE Concat(_)
\* the in-order concatenation of a sequence of byte strings
Concat(ss) == IF ss = <<>> THEN <<>> ELSE Head(ss) \o Concat(Tail(ss))

\* a slice that keeps the last n bytes instead of the first n
TakeLast(data, n) == SubSeq(data, Len(data) - n + 1, Len(data))

\* data[:n]
Take(data, n) == SubSeq(data, 1, n)

\* a slice that is off by one: the byte after the chunk is dropped with it
DropOneMore(data, n) == SubSeq(data, n + 2, Len(data))

\* data[n:]
Drop(data, n) == SubSeq(data, n + 1, Len(data))

\* the n-byte body a view returns on stream id: bytes that name their stream
\* and their position, so that loss, duplication and reordering all show
Body(id, n) == [k \in 1..n |-> 10 * id + k]

\* the request-body chunks the peer may send in one DATA frame: every length
\* up to one byte more than the limit
Chunks == {[k \in 1..n |-> 7] : n \in 0..(MaxRequestSize + 1)}

\* the state as one record, so that a method is an operator from state to
\* state and a method calling another composes them
Cur == [streams |-> streams, obj |-> obj, task |-> task, conn |-> conn,
        out |-> out, alive |-> alive, transport |-> transport, sig |-> sig,
        raised |-> raised, sup |-> sup, goaway |-> goaway,
        registered |-> registered, wire |-> wire]

Becomes(S) ==
    /\ streams' = S.streams
    /\ obj' = S.obj
    /\ task' = S.task
    /\ conn' = S.conn
    /\ out' = S.out
    /\ alive' = S.alive
    /\ transport' = S.transport
    /\ sig' = S.sig
    /\ raised' = S.raised
    /\ sup' = S.sup
    /\ goaway' = S.goaway
    /\ registered' = S.registered
    /\ wire' = S.wire

\* F applied to the value of v: the callee works on the state it is handed,
\* computed once
Strict(v, F(_)) == CHOOSE r \in {F(x) : x \in {v}} : TRUE

\* the model follows the connection until an exception leaves one of its
\* callbacks (asyncio then tears the transport down)
Running == raised = ""

\* ------------------------------------------------------------ constructors
\* Stream.__init__ / BaseStream.__init__ (class attribute defaults included)
NewStream ==
    [created |-> TRUE,
     bytes_received |-> 0,
     request_body |-> <<>>,       \* io.BytesIO(): the bytes written so far
     body_open |-> TRUE,          \* request_body is not None
     request_data |-> <<>>,       \* request._body once the stream completed
     has_task |-> FALSE,          \* self.task is not None
     fcf |-> FALSE,               \* self._flow_control_future is not None
     close_waiter |-> FALSE,      \* self._close_waiter is not None
     streaming |-> FALSE,
     bytes_send |-> 0,
     scheduled |-> 0,             \* tasks ever created for the stream
     refused |-> 0]               \* the size the refused chunk would have
                                  \* brought the body to, 0 if none was

NoStream == [NewStream EXCEPT !.created = FALSE]

\* a task: st is "none" (never created), "new" (created, first step not run),
\* "run" (inside a step), "susp" (suspended at `at` on a future whose state is
\* fut), "done" or "cancelled"
NoTask ==
    [st |-> "none", at |-> "-", fut |-> "-", must_cancel |-> FALSE,
     rf |-> "-",                  \* handle_request's response_future
     worker |-> "-",              \* the thread running _inner_handle_request
     close_event |-> FALSE,
     mode |-> "-",                \* the response: "plain" or "stream"
     status |-> 0,
     rest |-> <<>>,               \* body bytes not yet passed to send_data
     body |-> <<>>,               \* the whole body of the response
     data |-> <<>>,               \* send_data's `data`: bytes still to send
     call |-> <<>>,               \* the data the current send_data call got
     call_at |-> 0,               \* length of out[id] when that call began
     call_st |-> "-",             \* send_data: "-", "active", "returned",
                                  \* "broke" or "cancelled"
     iter |-> "-",                \* the body iterator: "-", "open", "closed"
     fin |-> "-",                 \* the iterator's state when the task first
                                  \* ran end_stream or its closing finally
     failed |-> "-"]              \* the handler failed: "-", in the "view",
                                  \* in the body's "iter", or by "timeout"

\* exc counts the request_exception notifications, lost those among them
\* that carry the error the transport was lost with, finished the
\* request_finished notifications
NoSig == [exc |-> 0, lost |-> 0, finished |-> 0]

\* the wait_shutdown task: st is "none" (graceful_shutdown not called),
\* "failed" (graceful_shutdown raised before it created the task), "new",
\* "susp" (awaiting the Stream `on`, on its _close_waiter whose state is fut)
\* or "done"; `on` stays the stream awaited last
NoSup == [st |-> "none", on |-> 0, fut |-> "-"]

Init ==
    /\ streams = {}
    /\ obj = [i \in StreamIds |-> NoStream]
    /\ task = [i \in StreamIds |-> NoTask]
    /\ conn = [cwin |-> MaxWindow,
               swin |-> [i \in StreamIds |-> MaxWindow],
               initial |-> MaxWindow,
               max_frame |-> MaxFrame,
               ended |-> {},
               closed |-> {},
               terminated |-> FALSE,
               highest |-> 0,
               acks |-> <<>>]       \* the window increments asked of the codec
    /\ out = [i \in StreamIds |-> <<>>]
    /\ alive = TRUE
    /\ transport = "open"
    /\ sig = [i \in StreamIds |-> NoSig]
    /\ raised = ""
    /\ sup = NoSup
    /\ goaway = -1
    /\ registered = TRUE
    /\ wire = <<>>

\* ------------------------------------------------------- asyncio primitives
\* asyncio.Task.cancel() on the task of stream id.  A finished task is left
\* alone; a task suspended on a pending future has that future cancelled; a
\* task that is running, not yet started, or whose future is already done
\* gets the cancellation noted and delivered at its next step.
TaskCancel(S0, id) ==
    Strict(S0, LAMBDA S :
    LET t == S.task[id] IN
    IF t.st \in {"none", "done", "cancelled"} THEN S
    ELSE IF t.st = "susp" /\ t.fut = "pending"
        THEN [S EXCEPT !.task[id].fut = "cancelled"]
        ELSE [S EXCEPT !.task[id].must_cancel = TRUE])

\* task.done()
TaskDone(S, id) == S.task[id].st \in {"done", "cancelled"}

\* Future.cancel() on the stream's _flow_control_future: the future the
\* stream's task is suspended on in wait_for_flow_control
FutureCancel(S0, id) ==
    Strict(S0, LAMBDA S :
    LET t == S.task[id] IN
    IF t.st = "susp" /\ t.at = "fc" /\ t.fut = "pending"
    THEN [S EXCEPT !.task[id].fut = "cancelled"]
    ELSE S)

\* signals.request_exception.send(..., request=stream.request, exc=...)
RequestException(S, id) == [S EXCEPT !.sig[id].exc = @ + 1]

\* ------------------------------------------------------------------ Stream
\* a close that leaves the flow-control future as it is
BaseClose_keep(S, id) == S

\* BaseStream.close
BaseClose(S0, id) ==
    Strict(S0, LAMBDA S :
    IF S.obj[id].fcf
    THEN [FutureCancel(S, id) EXCEPT !.obj[id].fcf = FALSE]
    ELSE S)

\* Stream.close(exc); has_exc says whether exc is given
StreamClose(S0, id, has_exc) ==
    Strict(S0, LAMBDA S :
    LET S1 == IF S.obj[id].close_waiter
              THEN [S EXCEPT !.obj[id].close_waiter = FALSE,
                             !.sup.fut = "result"]   \* set_result(self)
              ELSE S
        S2 == IF S1.obj[id].has_task /\ ~TaskDone(S1, id)
              THEN [TaskCancel(S1, id) EXCEPT !.obj[id].has_task = FALSE]
              ELSE S1
        S3 == IF has_exc
              THEN [RequestException(S2, id) EXCEPT !.sig[id].lost = @ + 1]
              ELSE S2
    IN BaseClose(S3, id))

\* a stream_reset that lets the KeyError of an absent stream out
stream_reset_raising(S, id) ==
    IF id \in S.streams
    THEN StreamClose([S EXCEPT !.streams = @ \ {id}], id, FALSE)
    ELSE [S EXCEPT !.raised = "KeyError"]

\* BaseH2Protocol.stream_reset
stream_reset(S0, id) ==
    Strict(S0, LAMBDA S :
    IF id \in S.streams
    THEN StreamClose([S EXCEPT !.streams = @ \ {id}], id, FALSE)
    ELSE S)

\* h2 closes a stream, and with that forgets the stream's window
CodecClose(S, id) ==
    [S EXCEPT !.conn.closed = @ \cup {id}, !.conn.swin[id] = 0]

\* h2: conn.reset_stream(stream_id, error_code): a RST_STREAM frame is queued
\* and the codec closes the stream
CodecReset(S, id, code) ==
    CodecClose([S EXCEPT !.out[id] = Append(@, [k |-> "reset", d |-> <<code>>,
                                                es |-> FALSE])], id)

\* Stream.event_receive_data, the chunk over the limit: the stream is reset
\* with REFUSED_STREAM and protocol.stream_reset drops and closes it
Refuse(S, id, data) ==
    stream_reset(
        CodecReset([S EXCEPT !.obj[id].refused =
                                 S.obj[id].bytes_received + Len(data)],
                   id, "REFUSED_STREAM"), id)

\* self.conn.increment_flow_control_window(n): an increment of the
\* connection's window (stream 0); h2 raises ValueError for one below 1
Acknowledge(S, n) ==
    IF n < 1 THEN [S EXCEPT !.raised = "ValueError"]
    ELSE [S EXCEPT !.conn.acks = Append(@, [stream |-> 0, n |-> n])]

\* Stream.event_receive_data, the chunk within the limit: it is written to
\* request_body and counted
Accept(S, id, data) ==
    IF ~S.obj[id].body_open
    THEN [S EXCEPT !.raised = "AttributeError"]      \* None.write(data)
    ELSE Acknowledge([S EXCEPT !.obj[id].request_body = @ \o data,
                               !.obj[id].bytes_received = @ + Len(data)],
                     Len(data))

\* an event_receive_data that refuses a body of exactly the maximum
event_receive_data_inclusive(S, id, data) ==
    IF S.obj[id].bytes_received + Len(data) >= MaxRequestSize
    THEN Refuse(S, id, data)
    ELSE Accept(S, id, data)

\* an event_receive_data that writes the chunk before it checks the limit
event_receive_data_late(S, id, data) ==
    IF S.obj[id].bytes_received + Len(data) > MaxRequestSize
    THEN Refuse([S EXCEPT !.obj[id].request_body = @ \o data], id, data)
    ELSE Accept(S, id, data)

\* an event_receive_data that closes the connection with the stream
event_receive_data_fatal(S, id, data) ==
    IF S.obj[id].bytes_received + Len(data) > MaxRequestSize
    THEN [Refuse(S, id, data) EXCEPT !.transport = "closed"]
    ELSE Accept(S, id, data)

\* Stream.event_receive_data
event_receive_data(S0, id, data) ==
    Strict(S0, LAMBDA S :
    IF S.obj[id].bytes_received + Len(data) > MaxRequestSize
    THEN Refuse(S, id, data)
    ELSE Accept(S, id, data))

\* asyncio.create_task(self.handle_task())
CreateTask(S, id) ==
    [S EXCEPT !.task[id] = [NoTask EXCEPT !.st = "new"],
              !.obj[id].has_task = TRUE,
              !.obj[id].scheduled = @ + 1]

\* an event_stream_complete that schedules a task whatever the buffer is
event_stream_complete_again(S, id) ==
    CreateTask([S EXCEPT !.obj[id].body_open = FALSE], id)

\* Stream.event_stream_complete, with H2Request.stream_complete
event_stream_complete(S0, id) ==
    Strict(S0, LAMBDA S :
    LET s == S.obj[id] IN
    IF ~s.body_open
    THEN [S EXCEPT !.raised = "AttributeError"]     \* None.seek(0)
    ELSE CreateTask(
            [S EXCEPT !.obj[id].request_data = s.request_body,
                      !.obj[id].request_body = <<>>,
                      !.obj[id].body_open = FALSE], id))

\* an event_window_updated that drops the future without resolving it
event_window_updated_forget(S, id) == [S EXCEPT !.obj[id].fcf = FALSE]

\* an event_window_updated that resolves the future and keeps the handle
event_window_updated_keep(S, id) ==
    LET t == S.task[id] IN
    IF ~S.obj[id].fcf THEN S
    ELSE IF t.st = "susp" /\ t.at = "fc" /\ t.fut = "pending"
        THEN [S EXCEPT !.task[id].fut = "result"]
        ELSE [S EXCEPT !.raised = "InvalidStateError"]

\* BaseStream.event_window_updated
event_window_updated(S0, id) ==
    Strict(S0, LAMBDA S :
    LET t == S.task[id] IN
    IF ~S.obj[id].fcf THEN S
    ELSE IF t.st = "susp" /\ t.at = "fc" /\ t.fut = "pending"
        THEN [S EXCEPT !.task[id].fut = "result", !.obj[id].fcf = FALSE]
        ELSE [S EXCEPT !.raised = "InvalidStateError"])  \* set_result

RECURSIVE EachWindowUpdated(_, _)
\* for stream in self.streams.values(): stream.event_window_updated(delta)
EachWindowUpdated(S0, ids) ==
    Strict(S0, LAMBDA S :
    IF ids = {} \/ S.raised # "" THEN S
    ELSE LET i == CHOOSE x \in ids : \A y \in ids : x <= y
         IN EachWindowUpdated(event_window_updated(S, i), ids \ {i}))

\* ============================================================ handler task
\* the coroutine yields a future: the task is suspended on it.  A cancellation
\* requested while the task was running cancels that future at once.
Suspend(S0, id, at) ==
    Strict(S0, LAMBDA S :
    [S EXCEPT !.task[id].st = "susp",
              !.task[id].at = at,
              !.task[id].fut = IF S.task[id].must_cancel
                               THEN "cancelled" ELSE "pending",
              !.task[id].must_cancel = FALSE])

\* h2 refuses to frame n bytes on the stream: StreamClosedError when the
\* stream is closed, ProtocolError when the connection is, FlowControlError
\* (a ProtocolError) when n exceeds the window
CodecRefuses(S0, id, n) ==
    Strict(S0, LAMBDA S :
    \/ id \in S.conn.closed
    \/ S.conn.terminated
    \/ n > Min(S.conn.cwin, S.conn.swin[id]))

\* a window that is the least over all the streams, not the stream's own
WindowOfAll(S, id) ==
    Min(S.conn.cwin,
        CHOOSE w \in {S.conn.swin[i] : i \in StreamIds} :
            \A i \in StreamIds : w <= S.conn.swin[i])

\* conn.local_flow_control_window(stream_id)
Window(S0, id) ==
    Strict(S0, LAMBDA S :
    Min(S.conn.cwin, S.conn.swin[id]))

\* the task of stream id reaches a finalization: self.end_stream() in the
\* finally of send_response, or self.close() in the finally of handle_task
Finalizing(S, id) ==
    [S EXCEPT !.task[id].fin = IF @ = "-" THEN S.task[id].iter ELSE @]

\* a handle_task that sends no notification for what handle_request raised
HandleTaskEnd_silent(S, id, exc) ==
    LET S2 == StreamClose(S, id, FALSE)
    IN [S2 EXCEPT !.task[id].st =
                      IF exc = "cancel" \/ S2.task[id].must_cancel
                      THEN "cancelled" ELSE "done",
                  !.task[id].must_cancel = FALSE,
                  !.task[id].at = "-",
                  !.task[id].fut = "-"]

\* Stream.handle_task from the point the awaited handle_request returned
\* (exc "none") or raised CancelledError ("cancel") or anything else
\* ("error"): the except clauses, the finally, and the end of the task
HandleTaskEnd(S0, id, exc) ==
    Strict(S0, LAMBDA S :
    LET S1 == IF exc = "error" THEN RequestException(S, id) ELSE S
        S2 == StreamClose(Finalizing(S1, id), id, FALSE)
    IN [S2 EXCEPT !.task[id].st =
                      IF exc = "cancel" \/ S2.task[id].must_cancel
                      THEN "cancelled" ELSE "done",
                  !.task[id].must_cancel = FALSE,
                  !.task[id].at = "-",
                  !.task[id].fut = "-"])

\* H2Handler.handle_request line 94: await task (the worker-thread job)
AwaitWorker(S0, id) ==
    Strict(S0, LAMBDA S :
    IF S.task[id].worker = "finished"
    THEN HandleTaskEnd(S, id, "none")
    ELSE Suspend(S, id, "worker"))

\* a handle_request that sends request_finished after a send that returned,
\* and not after one that raised
AfterSend_else(S, id, exc) ==
    LET S1 == [S EXCEPT !.task[id].close_event = TRUE]
    IN IF exc = "none"
       THEN AwaitWorker([S1 EXCEPT !.sig[id].finished = @ + 1], id)
       ELSE HandleTaskEnd(S1, id, exc)

\* H2Handler.handle_request from the point `await send(response)` returned or
\* raised: the finally clause, then the final await
AfterSend(S, id, exc) ==
    LET S1 == [S EXCEPT !.sig[id].finished = @ + 1,
                        !.task[id].close_event = TRUE]
    IN IF exc = "none" THEN AwaitWorker(S1, id)
       ELSE HandleTaskEnd(S1, id, exc)

\* BaseStream.end_stream when the codec accepts the end of stream
end_stream(S, id) ==
    StreamClose(
        CodecClose([Finalizing(S, id) EXCEPT
                        !.out[id] = Append(@, [k |-> "end", d |-> <<>>,
                                               es |-> TRUE])], id),
        id, FALSE)

\* a streaming branch that ends the stream only when the loop ended by itself
StreamExit_unended(S, id, exc) ==
    LET S1 == [S EXCEPT !.task[id].iter =
                            IF @ = "open" THEN "closed" ELSE @]
    IN IF CodecRefuses(S1, id, 0)
       THEN AfterSend(S1, id, "error")
       ELSE IF exc = "none" THEN AfterSend(end_stream(S1, id), id, exc)
       ELSE AfterSend(S1, id, exc)

\* a streaming branch that ends the stream first and closes the iterator
\* afterwards
StreamExit_late(S, id, exc) ==
    LET S1 == IF CodecRefuses(S, id, 0) THEN Finalizing(S, id)
              ELSE end_stream(S, id)
        S2 == [S1 EXCEPT !.task[id].iter =
                             IF @ = "open" THEN "closed" ELSE @]
    IN AfterSend(S2, id, IF CodecRefuses(S, id, 0) THEN "error" ELSE exc)

\* Stream.send_response, leaving the streaming branch with exc pending: the
\* body iterator is closed (aclosing), then finally: self.end_stream()
StreamExit(S, id, exc) ==
    LET S1 == [S EXCEPT !.task[id].iter =
                            IF @ = "open" THEN "closed" ELSE @]
    IN IF CodecRefuses(S1, id, 0)
       THEN AfterSend(Finalizing(S1, id), id, "error")  \* end_stream raises
       ELSE AfterSend(end_stream(S1, id), id, exc)

\* a chunk size that leaves the window out of the minimum
ChunkSizeNoWindow(window, data, max_frame) == Min(Len(data), max_frame)

\* send_data's chunk_size = min(window, len(data), max_outbound_frame_size)
ChunkSize(window, data, max_frame) == Min3(window, Len(data), max_frame)

\* an end flag that is not tied to the last chunk
EndFlagAlways(ends, chunk_size, data) == ends

\* send_data's end_stream=end_stream and (chunk_size == len(data))
EndFlag(ends, chunk_size, data) ==
    ends /\ chunk_size = Len(data)

RECURSIVE SendLoop_counting(_, _)
\* a send loop that counts the chunk before the codec has taken it
SendLoop_counting(S0, id) ==
    Strict(S0, LAMBDA S :
    LET t == S.task[id]
        data == t.data
        window == Window(S, id)
        chunk_size == ChunkSize(window, data, S.conn.max_frame)
        end == EndFlag(t.mode = "plain", chunk_size, data)
    IN
    IF data = <<>> THEN [S EXCEPT !.task[id].call_st = "returned"]
    ELSE IF window <= 0
    THEN Suspend([S EXCEPT !.obj[id].fcf = TRUE], id, "fc")
    ELSE IF id \in S.conn.closed \/ S.conn.terminated
    THEN [S EXCEPT !.task[id].call_st = "broke",
                   !.obj[id].bytes_send = @ + chunk_size]
    ELSE LET S1 == [S EXCEPT !.out[id] = Append(@, [k |-> "data",
                                                    d |-> Take(data, chunk_size),
                                                    es |-> end]),
                             !.conn.cwin = @ - chunk_size,
                             !.conn.swin[id] = @ - chunk_size,
                             !.task[id].data = Drop(data, chunk_size),
                             !.obj[id].bytes_send = @ + chunk_size]
         IN SendLoop_counting(IF end THEN CodecClose(S1, id) ELSE S1, id))

RECURSIVE SendLoop(_, _)
\* BaseStream.send_data: `while data:` with wait_for_flow_control inlined.
\* Ends with the task suspended on the flow-control future, or with the call
\* returned (data exhausted) or broken off (the codec refused a chunk).
SendLoop(S0, id) ==
    Strict(S0, LAMBDA S :
    LET t == S.task[id]
        data == t.data
        window == Window(S, id)
        chunk_size == ChunkSize(window, data, S.conn.max_frame)
        end == EndFlag(t.mode = "plain", chunk_size, data)
    IN
    IF data = <<>> THEN [S EXCEPT !.task[id].call_st = "returned"]
    ELSE IF window <= 0
    THEN Suspend([S EXCEPT !.obj[id].fcf = TRUE], id, "fc")
    ELSE IF id \in S.conn.closed \/ S.conn.terminated
    THEN [S EXCEPT !.task[id].call_st = "broke"]
    ELSE LET S1 == [S EXCEPT !.out[id] = Append(@, [k |-> "data",
                                                    d |-> Take(data, chunk_size),
                                                    es |-> end]),
                             !.conn.cwin = @ - chunk_size,
                             !.conn.swin[id] = @ - chunk_size,
                             !.task[id].data = Drop(data, chunk_size),
                             !.obj[id].bytes_send = @ + chunk_size]
         IN SendLoop(IF end THEN CodecClose(S1, id) ELSE S1, id))

\* what follows a send_data call in Stream.send_response: the next part of a
\* streaming body is awaited, or the plain response is complete
AfterSendData(S0, id) ==
    Strict(S0, LAMBDA S :
    IF S.task[id].st = "susp" THEN S
    ELSE IF S.task[id].mode = "stream" THEN Suspend(S, id, "part")
    ELSE AfterSend(S, id, "none"))

\* a send_data that only runs the loop: empty data passes without a call
send_data_loop(S, id, data) ==
    AfterSendData(SendLoop([S EXCEPT !.task[id].data = data,
                                     !.task[id].call = data,
                                     !.task[id].call_at = Len(S.out[id]),
                                     !.task[id].call_st = "active"], id), id)

\* BaseStream.send_data(data, end_stream), called from Stream.send_response;
\* end_stream is requested for a plain body and not for a part
send_data(S0, id, data) ==
    Strict(S0, LAMBDA S :
    LET es == S.task[id].mode = "plain"
        S1 == [S EXCEPT !.task[id].data = data,
                        !.task[id].call = data,
                        !.task[id].call_at = Len(S.out[id]),
                        !.task[id].call_st = "active"]
    IN
    IF data = <<>> /\ es
    THEN IF CodecRefuses(S1, id, 0)
         THEN AfterSend(S1, id, "error")
         ELSE AfterSendData(SendLoop(end_stream(S1, id), id), id)
    ELSE AfterSendData(SendLoop(S1, id), id))

\* Stream.send_response(response), the response being the task's mode,
\* status and rest
send_response(S0, id) ==
    Strict(S0, LAMBDA S :
    LET t == S.task[id] IN
    IF id \in S.conn.closed \/ S.conn.terminated
    THEN AfterSend(S, id, "error")          \* conn.send_headers raises
    ELSE
    LET S1 == [S EXCEPT !.out[id] = Append(@, [k |-> "headers",
                                               d |-> <<t.status>>,
                                               es |-> FALSE])]
    IN
    IF t.mode = "stream"
    THEN LET S2 == [S1 EXCEPT !.obj[id].streaming = TRUE] IN
         IF S2.alive
         THEN Suspend([S2 EXCEPT !.task[id].iter = "open"], id, "part")
         ELSE StreamExit(S2, id, "none")
    ELSE send_data([S1 EXCEPT !.task[id].rest = <<>>], id, t.rest))

\* a handle_request that answers every failure with status 500
GotResponse_500(S, id, how) ==
    LET S1 == IF how = "result" THEN S
              ELSE [RequestException(S, id) EXCEPT
                        !.task[id].mode = "plain",
                        !.task[id].body = <<>>,
                        !.task[id].rest = <<>>,
                        !.task[id].status = 500]
        S2 == IF S1.task[id].mode = "stream"
              THEN [S1 EXCEPT !.task[id].close_event = TRUE] ELSE S1
    IN send_response(S2, id)

\* H2Handler.handle_request from `response = await response_future` on: the
\* awaited future gave a response, or raised (the handler's exception, a
\* TimeoutError, or the task's CancelledError, all caught as BaseException and
\* answered by an empty 500 or 504 response)
GotResponse(S0, id, how) ==
    Strict(S0, LAMBDA S :
    LET S1 == IF how = "result" THEN S
              ELSE [RequestException(S, id) EXCEPT
                        !.task[id].mode = "plain",
                        !.task[id].body = <<>>,
                        !.task[id].rest = <<>>,
                        !.task[id].status =
                            IF how = "timeout" THEN 504 ELSE 500]
        S2 == IF S1.task[id].mode = "stream"
              THEN [S1 EXCEPT !.task[id].close_event = TRUE] ELSE S1
    IN send_response(S2, id))

\* the first step of the task: Stream.handle_task enters handle_request,
\* which hands the request to the thread pool and awaits the response
StartTask(S, id) ==
    Suspend([S EXCEPT !.task[id].rf = "pending",
                      !.task[id].worker = "busy"], id, "response")

\* one step of the task of stream id (asyncio's Task.__step): the coroutine
\* is resumed, with CancelledError thrown in if the task was cancelled or the
\* awaited future was, and runs to its next suspension or to its end
Resume(S0, id) ==
    Strict(S0, LAMBDA S :
    LET t == S.task[id]
        throw == t.must_cancel \/ t.fut = "cancelled"
        R == [S EXCEPT !.task[id].st = "run",
                       !.task[id].must_cancel = FALSE,
                       !.task[id].fut = "-"]
    IN
    IF t.st = "new"
    THEN IF throw
         THEN [R EXCEPT !.task[id].st = "cancelled"]
         ELSE StartTask(R, id)
    ELSE IF t.at = "response"
    THEN GotResponse([R EXCEPT !.task[id].rf =
                                  IF t.fut = "cancelled" THEN "cancelled"
                                  ELSE @],
                     id, IF throw THEN "cancel" ELSE t.fut)
    ELSE IF t.at = "fc"
    THEN IF throw
         THEN LET R1 == [R EXCEPT !.task[id].call_st = "cancelled"] IN
              IF t.mode = "stream" THEN StreamExit(R1, id, "cancel")
              ELSE AfterSend(R1, id, "cancel")
         ELSE AfterSendData(SendLoop(R, id), id)
    ELSE IF t.at = "part"
    THEN StreamExit(R, id, "cancel")        \* only a cancellation ends it
    ELSE \* t.at = "worker"
         HandleTaskEnd(R, id, IF throw THEN "cancel" ELSE "none"))

\* ------------------------------------------------------------ task actions
\* the event loop runs a step of the task of stream id
TaskStep(id) ==
    /\ Running
    /\ \/ task[id].st = "new"
       \/ task[id].st = "susp" /\ task[id].fut # "pending"
    /\ Becomes(Resume(Cur, id))

\* the responses a view may return: a plain body, or a streaming one
Responses(id) ==
    [mode : {"plain", "stream"}, body : {Body(id, n) : n \in 0..MaxBody}]

\* the worker thread finished get_response with response r, and the event
\* loop runs the set_result it scheduled
WorkerResult(id, r) ==
    /\ Running
    /\ task[id].worker = "busy"
    /\ task[id].rf = "pending"
    /\ task[id].st = "susp" /\ task[id].at = "response"
    /\ task[id].fut = "pending"
    /\ task' = [task EXCEPT ![id].rf = "done",
                            ![id].fut = "result",
                            ![id].worker = "waiting",
                            ![id].mode = r.mode,
                            ![id].status = 200,
                            ![id].body = r.body,
                            ![id].rest = r.body]
    /\ UNCHANGED <<streams, obj, conn, out, alive, transport, sig, raised,
                   sup, goaway, registered, wire>>

\* get_response raised in the worker thread: the event loop runs the
\* set_exception it scheduled; the thread has returned
WorkerException(id) ==
    /\ Running
    /\ task[id].worker = "busy"
    /\ task[id].rf = "pending"
    /\ task[id].st = "susp" /\ task[id].at = "response"
    /\ task[id].fut = "pending"
    /\ task' = [task EXCEPT ![id].rf = "done",
                            ![id].fut = "exception",
                            ![id].worker = "finished",
                            ![id].failed = "view"]
    /\ UNCHANGED <<streams, obj, conn, out, alive, transport, sig, raised,
                   sup, goaway, registered, wire>>

\* asyncio.timeout(self.timeout) expires while the task awaits the response:
\* the task is cancelled (a pending response_future with it) and the
\* CancelledError is turned into TimeoutError when the block is left
Timeout(id) ==
    /\ Running
    /\ task[id].st = "susp" /\ task[id].at = "response"
    /\ task[id].fut \in {"pending", "result", "exception"}
    /\ task' = [task EXCEPT
                  ![id].fut = "timeout",
                  ![id].failed = "timeout",
                  ![id].rf = IF task[id].fut = "pending" THEN "cancelled" ELSE @]
    /\ UNCHANGED <<streams, obj, conn, out, alive, transport, sig, raised,
                   sup, goaway, registered, wire>>

\* the response_future of the task is done or cancelled
ResponseFutureDone(id) ==
    \/ task[id].rf \in {"done", "cancelled"}
    \/ task[id].st = "susp" /\ task[id].at = "response"
          /\ task[id].fut \in {"cancelled", "timeout"}

\* get_response ends in the worker thread after the task stopped waiting for
\* it: the set_result or set_exception scheduled finds response_future done,
\* and the thread goes on to close_event.wait
WorkerDiscard(id) ==
    /\ Running
    /\ task[id].worker = "busy"
    /\ ResponseFutureDone(id)
    /\ task' = [task EXCEPT ![id].worker = "waiting"]
    /\ UNCHANGED <<streams, obj, conn, out, alive, transport, sig, raised,
                   sup, goaway, registered, wire>>

\* the worker thread leaves close_event.wait and returns: the job the task
\* awaits last is done
WorkerFinish(id) ==
    /\ Running
    /\ task[id].worker = "waiting"
    /\ task[id].close_event
    /\ task' = [task EXCEPT
                  ![id].worker = "finished",
                  ![id].fut = IF task[id].st = "susp" /\ task[id].at = "worker"
                                 /\ @ = "pending"
                              THEN "result" ELSE @]
    /\ UNCHANGED <<streams, obj, conn, out, alive, transport, sig, raised,
                   sup, goaway, registered, wire>>

\* the task waits in `async for part in content` for the body iterator
WaitingPart(id) ==
    /\ Running
    /\ task[id].st = "susp" /\ task[id].at = "part"
    /\ task[id].fut = "pending"

\* the running task with its wait for the iterator over
Woken(id) == [Cur EXCEPT !.task[id].st = "run", !.task[id].fut = "-"]

\* the iterator yields its next part, of n bytes, and the task goes on with
\* await self.send_data(part, end_stream=False)
StreamPart(id, n) ==
    /\ WaitingPart(id)
    /\ n <= Len(task[id].rest)
    /\ Becomes(send_data(
           [Woken(id) EXCEPT !.task[id].rest = Drop(@, n)],
           id, Take(task[id].rest, n)))

\* the iterator is exhausted: the loop and the aclosing block are left
StreamStop(id) ==
    /\ WaitingPart(id)
    /\ task[id].rest = <<>>
    /\ Becomes(StreamExit(Woken(id), id, "none"))

\* the iterator raises
StreamRaise(id) ==
    /\ WaitingPart(id)
    /\ Becomes(StreamExit([Woken(id) EXCEPT !.task[id].failed = "iter"],
                           id, "error"))

\* --------------------------------------------------------------- Connection
\* a window_updated that takes a connection-level update for one stream's
window_updated_one(S, id) ==
    IF id = 0
    THEN IF S.streams = {} THEN S
         ELSE event_window_updated(
                  S, CHOOSE x \in S.streams : \A y \in S.streams : x <= y)
    ELSE IF id \in S.streams THEN event_window_updated(S, id)
    ELSE S

\* BaseH2Protocol.window_updated; id 0 is the connection-level update
window_updated(S0, id) ==
    Strict(S0, LAMBDA S :
    IF id = 0 THEN EachWindowUpdated(S, S.streams)
    ELSE IF id \in S.streams THEN event_window_updated(S, id)
    ELSE S)

\* a receive_data that lets the KeyError of an absent stream out
receive_data_raising(S, id, data) ==
    IF id \in S.streams THEN event_receive_data(S, id, data)
    ELSE [S EXCEPT !.raised = "KeyError"]

\* BaseH2Protocol.receive_data
receive_data(S0, id, data) ==
    Strict(S0, LAMBDA S :
    IF id \in S.streams THEN event_receive_data(S, id, data)
    ELSE CodecReset(S, id, "PROTOCOL_ERROR"))

\* BaseH2Protocol.stream_complete
stream_complete(S0, id) ==
    Strict(S0, LAMBDA S :
    IF id \in S.streams THEN event_stream_complete(S, id) ELSE S)

\* DjangoH2Protocol.request_received
request_received(S0, id) ==
    Strict(S0, LAMBDA S :
    IF S.alive
    THEN [S EXCEPT !.streams = @ \cup {id}, !.obj[id] = NewStream]
    ELSE S)

\* ------------------------------------------------- data_received, per event
\* the connection still receives
Receiving == Running /\ transport = "open"

\* the codec has a stream of this id, open or closed
Seen(id) == id <= conn.highest

\* RequestReceived: the codec accepts only ids above every id seen so far,
\* and opens the stream with the peer's initial window
RequestReceived(id) ==
    /\ Receiving
    /\ id > conn.highest
    /\ Becomes(request_received(
           [Cur EXCEPT !.conn.highest = id,
                       !.conn.swin[id] = conn.initial], id))

\* DataReceived: the codec reports data only on a stream that it has, has not
\* closed and whose end it has not seen (it answers other frames by itself)
DataReceived(id, data) ==
    /\ Receiving
    /\ Seen(id) /\ id \notin conn.closed \cup conn.ended
    /\ Becomes(receive_data(Cur, id, data))

\* StreamEnded
StreamEnded(id) ==
    /\ Receiving
    /\ Becomes(stream_complete(
           [Cur EXCEPT !.conn.ended = IF Seen(id) THEN @ \cup {id} ELSE @],
           id))

\* StreamReset: the codec has closed the stream
StreamReset(id) ==
    /\ Receiving
    /\ Becomes(stream_reset(IF Seen(id) THEN CodecClose(Cur, id) ELSE Cur, id))

\* the codec keeps a window for the stream: it has the stream, and open
Windowed(id) == Seen(id) /\ id \notin conn.closed

\* some stream among ids is still to be opened, or open in the codec: the
\* peer changes the connection's window and its settings while that is so
Live(ids) == \E i \in ids : ~Seen(i) \/ Windowed(i)

\* WindowUpdated for a stream (delta added to its window by the codec) or,
\* with id 0, for the connection
WindowUpdated(id, delta) ==
    /\ Receiving
    /\ IF id = 0
       THEN /\ conn.cwin + delta <= MaxWindow
            /\ Becomes(window_updated([Cur EXCEPT !.conn.cwin = @ + delta], 0))
       ELSE /\ Windowed(id) => conn.swin[id] + delta <= MaxWindow
            /\ Becomes(window_updated(
                   [Cur EXCEPT !.conn.swin[id] =
                                   IF Windowed(id) THEN @ + delta ELSE @],
                   id))

\* RemoteSettingsChanged: the peer sets INITIAL_WINDOW_SIZE to initial (the
\* codec moves every open stream's window by the difference) and
\* MAX_FRAME_SIZE to frame; window_updated(None, 0) is called when the
\* settings frame carries an initial window size
SettingsChanged(initial, frame, carries) ==
    /\ Receiving
    /\ ~carries => initial = conn.initial
    /\ \A i \in StreamIds :
          Windowed(i) => conn.swin[i] + initial - conn.initial <= MaxWindow
    /\ LET S1 == [Cur EXCEPT
                     !.conn.swin = [i \in StreamIds |->
                         IF Windowed(i) THEN @[i] + initial - conn.initial
                         ELSE @[i]],
                     !.conn.initial = initial,
                     !.conn.max_frame = frame]
       IN Becomes(IF carries THEN window_updated(S1, 0) ELSE S1)

\* ------------------------------------------- shutdown and connection loss
\* the first stream of the mapping: a dict keeps insertion order, and the
\* codec admits stream ids in increasing order only
First(ids) == CHOOSE i \in ids : \A j \in ids : i <= j

RECURSIVE CancelStreaming(_, _)
\* for stream in [s for s in self.streams.values() if s.streaming]:
\*     stream.task.cancel()
\* stream.task is None once the stream was closed: AttributeError, and the
\* rest of graceful_shutdown does not run
CancelStreaming(S0, ids) ==
    Strict(S0, LAMBDA S :
    IF ids = {} THEN S
    ELSE LET i == First(ids) IN
         IF ~S.obj[i].has_task
         THEN [S EXCEPT !.sup.st = "failed"]
         ELSE CancelStreaming(TaskCancel(S, i), ids \ {i}))

\* a graceful_shutdown that cancels every stream's task, streaming or not
graceful_shutdown_all(S) ==
    LET S1 == [S EXCEPT !.goaway = S.conn.highest, !.alive = FALSE]
        S2 == CancelStreaming(S1, {i \in S1.streams : S1.obj[i].has_task})
    IN [S2 EXCEPT !.sup.st = "new"]

\* a graceful_shutdown that leaves the connection admitting requests
graceful_shutdown_open(S) ==
    LET S1 == [S EXCEPT !.goaway = S.conn.highest]
        S2 == CancelStreaming(S1, {i \in S1.streams : S1.obj[i].streaming})
    IN IF S2.sup.st = "failed" THEN S2 ELSE [S2 EXCEPT !.sup.st = "new"]

\* DjangoH2Protocol.graceful_shutdown
graceful_shutdown(S0) ==
    Strict(S0, LAMBDA S :
    LET S1 == [S EXCEPT !.goaway = S.conn.highest, !.alive = FALSE]
        S2 == CancelStreaming(S1, {i \in S1.streams : S1.obj[i].streaming})
    IN IF S2.sup.st = "failed" THEN S2
       ELSE [S2 EXCEPT !.sup.st = "new"])   \* create_task(wait_shutdown())

\* a wait_shutdown that closes the transport without looking at the mapping
wait_shutdown_now(S) ==
    [S EXCEPT !.transport = IF @ = "open" THEN "closed" ELSE @,
              !.sup.st = "done", !.sup.fut = "-"]

\* DjangoH2Protocol.wait_shutdown, one step of its task: the loop test, then
\* either `await stream` (Stream.__await__ makes a new _close_waiter) or
\* transport.close() and the end of the task
wait_shutdown(S0) ==
    Strict(S0, LAMBDA S :
    IF S.streams = {}
    THEN [S EXCEPT !.transport = IF @ = "open" THEN "closed" ELSE @,
                   !.sup.st = "done", !.sup.fut = "-"]
    ELSE LET i == First(S.streams) IN
         [S EXCEPT !.obj[i].close_waiter = TRUE,
                   !.sup = [st |-> "susp", on |-> i, fut |-> "pending"]])

RECURSIVE CloseEach(_, _, _)
\* for stream in self.streams.values(): stream.close(exc)
CloseEach(S0, ids, has_exc) ==
    Strict(S0, LAMBDA S :
    IF ids = {} THEN S
    ELSE LET i == First(ids)
         IN CloseEach(StreamClose(S, i, has_exc), ids \ {i}, has_exc))

\* a connection_lost that keeps the streams in the mapping
connection_lost_keep(S, has_exc) ==
    [CloseEach(S, S.streams, has_exc) EXCEPT !.registered = FALSE,
                                             !.transport = "lost"]

\* DjangoH2Protocol.connection_lost(exc) with BaseH2Protocol.connection_lost;
\* has_exc says whether exc is given
connection_lost(S0, has_exc) ==
    Strict(S0, LAMBDA S :
    [CloseEach(S, S.streams, has_exc) EXCEPT
        !.streams = {},
        !.registered = FALSE,       \* handler.connections.remove(self)
        !.transport = "lost"])

\* the worker calls handler.graceful_shutdown(), which calls the method of
\* every connection in handler.connections; the worker does so once
GracefulShutdown ==
    /\ Running
    /\ registered /\ alive
    /\ Becomes(graceful_shutdown(Cur))

\* the event loop runs a step of the wait_shutdown task
SupStep ==
    /\ Running
    /\ \/ sup.st = "new"
       \/ sup.st = "susp" /\ sup.fut = "result"
    /\ Becomes(wait_shutdown(Cur))

\* asyncio calls connection_lost once the transport is lost or was closed
ConnectionLost(has_exc) ==
    /\ Running
    /\ transport # "lost"
    /\ Becomes(connection_lost(Cur, has_exc))

\* self.transport.write(self.conn.data_to_send())
Flush(S) == [S EXCEPT !.wire = Append(@, "write")]

\* self.transport.close()
TransportClose(S) ==
    [S EXCEPT !.transport = "closed", !.wire = Append(@, "close")]

\* a data_received that closes the transport before it writes
data_received_error_closing(S) == Flush(TransportClose(S))

\* data_received when conn.receive_data raised ProtocolError: the except
\* clause
data_received_error(S) == TransportClose(Flush(S))

\* data_received for a batch whose event is ConnectionTerminated: the write
\* that follows receive_data, the event's branch, and the write that ends
\* every round of the loop over the events
data_received_terminated(S) == Flush(TransportClose(Flush(S)))

\* data_received, ConnectionTerminated: the peer's GOAWAY has closed the
\* codec's connection, and the transport is closed
ConnectionTerminated ==
    /\ Receiving
    /\ Becomes(data_received_terminated(
           [Cur EXCEPT !.conn.terminated = TRUE]))

\* data_received, conn.receive_data raises ProtocolError: the codec has
\* closed its connection, and the transport is closed
CodecError ==
    /\ Receiving
    /\ Becomes(data_received_error([Cur EXCEPT !.conn.terminated = TRUE]))

\* one stream, every input: the peer opens FirstId only, and sends events
\* for it and for the id it never opened
Next ==
    \/ RequestReceived(FirstId)
    \/ \E id \in StreamIds, data \in Chunks : DataReceived(id, data)
    \/ \E id \in StreamIds : StreamEnded(id)
    \/ \E id \in StreamIds : StreamReset(id)
    \/ \E id \in StreamIds, delta \in 1..MaxWindow : WindowUpdated(id, delta)
    \/ \E delta \in 1..MaxWindow :
          Live({FirstId}) /\ WindowUpdated(0, delta)
    \/ \E initial \in 0..MaxWindow, frame \in 1..MaxFrame,
          carries \in BOOLEAN :
          Live({FirstId}) /\ SettingsChanged(initial, frame, carries)
    \/ TaskStep(FirstId)
    \/ \E r \in Responses(FirstId) : WorkerResult(FirstId, r)
    \/ WorkerException(FirstId)
    \/ WorkerFinish(FirstId)
    \/ \E n \in 0..MaxPart : StreamPart(FirstId, n)
    \/ StreamStop(FirstId)
    \/ StreamRaise(FirstId)

Spec == Init /\ [][Next]_vars

\* the inputs of the multiplexing specification: a request body one byte
\* over the limit, and views that return the longest plain body
MuxChunks == {[k \in 1..(MaxRequestSize + 1) |-> 7]}

MuxResponses(id) == {[mode |-> "plain", body |-> Body(id, MaxBody)]}

\* every stream id opened, the streams' handler tasks running concurrently
NextMux ==
    \/ \E id \in StreamIds : RequestReceived(id)
    \/ \E id \in StreamIds, data \in MuxChunks : DataReceived(id, data)
    \/ \E id \in StreamIds : StreamEnded(id)
    \/ \E id \in StreamIds, delta \in 1..MaxWindow : WindowUpdated(id, delta)
    \/ \E delta \in 1..MaxWindow :
          Live(StreamIds) /\ WindowUpdated(0, delta)
    \/ \E id \in StreamIds : TaskStep(id)
    \/ \E id \in StreamIds : \E r \in MuxResponses(id) : WorkerResult(id, r)
    \/ \E id \in StreamIds : WorkerFinish(id)

SpecMux == Init /\ [][NextMux]_vars

\* the multiplexed streams with the peer changing its settings as well
NextWin ==
    \/ NextMux
    \/ \E initial \in 0..MaxWindow, frame \in 1..MaxFrame, carries \in BOOLEAN :
          Live(StreamIds) /\ SettingsChanged(initial, frame, carries)

SpecWin == Init /\ [][NextWin]_vars

\* the event loop runs every task that is ready: asyncio keeps the ready
\* callbacks in a queue and runs each of them in its turn
SpecLive == Spec /\ WF_vars(TaskStep(FirstId))

\* the inputs of the shutdown specification: views that return a plain or a
\* streaming body of DownBody bytes
DownBody == 1

DownResponses(id) ==
    [mode : {"plain", "stream"}, body : {Body(id, DownBody)}]

\* every stream id opened, the worker restarting, and the connection ending
\* by the peer's reset of a stream, its GOAWAY, a frame the codec rejects, or
\* the loss of the transport
NextDown ==
    \/ \E id \in StreamIds : RequestReceived(id)
    \/ \E id \in StreamIds : StreamEnded(id)
    \/ \E id \in StreamIds : StreamReset(id)
    \/ \E id \in StreamIds : TaskStep(id)
    \/ \E id \in StreamIds : \E r \in DownResponses(id) : WorkerResult(id, r)
    \/ \E id \in StreamIds : WorkerFinish(id)
    \/ \E id \in StreamIds : StreamPart(id, DownBody)
    \/ \E id \in StreamIds : StreamStop(id)
    \/ GracefulShutdown
    \/ SupStep
    \/ \E has_exc \in BOOLEAN : ConnectionLost(has_exc)
    \/ ConnectionTerminated
    \/ CodecError

SpecDown == Init /\ [][NextDown]_vars

\* the event loop runs every task that is ready, the handlers' and the
\* shutdown's, and the connection_lost call that transport.close() schedules
SpecDownLive ==
    /\ SpecDown
    /\ \A id \in StreamIds : WF_vars(TaskStep(id))
    /\ WF_vars(SupStep)
    /\ WF_vars(transport = "closed" /\ ConnectionLost(FALSE))

\* one stream with every kind of response, and every way its stream is
\* closed: the peer's reset, a body over the limit, the end of the handler,
\* and the loss of the transport
NextLoss ==
    \/ RequestReceived(FirstId)
    \/ \E data \in MuxChunks : DataReceived(FirstId, data)
    \/ StreamEnded(FirstId)
    \/ StreamReset(FirstId)
    \/ \E id \in {0, FirstId}, delta \in 1..MaxWindow :
          Live({FirstId}) /\ WindowUpdated(id, delta)
    \/ TaskStep(FirstId)
    \/ \E r \in Responses(FirstId) : WorkerResult(FirstId, r)
    \/ WorkerException(FirstId)
    \/ WorkerFinish(FirstId)
    \/ \E n \in 0..MaxPart : StreamPart(FirstId, n)
    \/ StreamStop(FirstId)
    \/ StreamRaise(FirstId)
    \/ \E has_exc \in BOOLEAN : ConnectionLost(has_exc)
    \/ ConnectionTerminated
    \/ CodecError

SpecLoss == Init /\ [][NextLoss]_vars

\* every stream id opened, before and after the worker's restart: a request
\* that arrives after graceful_shutdown gets no Stream, and the peer goes on
\* sending that request's frames
NextLate ==
    \/ \E id \in StreamIds : RequestReceived(id)
    \/ \E id \in StreamIds, data \in MuxChunks : DataReceived(id, data)
    \/ \E id \in StreamIds : StreamEnded(id)
    \/ \E id \in StreamIds : StreamReset(id)
    \/ \E id \in StreamIds \cup {0}, delta \in 1..MaxWindow :
          Live(StreamIds) /\ WindowUpdated(id, delta)
    \/ \E id \in StreamIds : TaskStep(id)
    \/ \E id \in StreamIds : \E r \in MuxResponses(id) : WorkerResult(id, r)
    \/ \E id \in StreamIds : WorkerFinish(id)
    \/ GracefulShutdown
    \/ SupStep

SpecLate == Init /\ [][NextLate]_vars

\* one stream with every kind of response and every way the handler fails
\* or is cut short: its exception, the timeout, the peer's reset, the loss of
\* the transport, and the worker's restart
NextFail ==
    \/ NextLoss
    \/ Timeout(FirstId)
    \/ WorkerDiscard(FirstId)
    \/ GracefulShutdown
    \/ SupStep

SpecFail == Init /\ [][NextFail]_vars

\* ------------------------------------------------------------- observations
\* the DATA frames among the frames fs
DataFrames(fs) == SelectSeq(fs, LAMBDA f : f.k = "data")

\* the payloads of the frames fs, in order
Payloads(fs) == [i \in 1..Len(fs) |-> fs[i].d]

\* the chunks the current send_data call of stream id handed to the codec
CallFrames(id) ==
    DataFrames(SubSeq(out[id], task[id].call_at + 1, Len(out[id])))

\* their concatenation
Written(id) == Concat(Payloads(CallFrames(id)))

\* the chunks stream id got handed to the codec in the step being taken
NewFrames(id) == DataFrames(SubSeq(out'[id], Len(out[id]) + 1, Len(out'[id])))

\* the stream's effective send window as the codec holds it
Effective(id) == Min(conn.cwin, conn.swin[id])

\* the task of stream id is suspended in wait_for_flow_control
Suspended(id) == task[id].st = "susp" /\ task[id].at = "fc"

\* the step being taken resumes the task of stream id from a resolved
\* flow-control wait
Resumed(id) ==
    /\ Suspended(id) /\ task[id].fut = "result" /\ ~task[id].must_cancel
    /\ ~(Suspended(id)' /\ task'[id].fut = "result")

Max(a, b) == IF a > b THEN a ELSE b

\* ------------------------------------------------------------------- claims
\* C1: the chunks a send_data call hands to the codec, concatenated in the
\* order they were handed over, are the body the call was given: with the
\* bytes still to send they make up that body while the call is under way,
\* and they are that body, no byte lost, repeated or moved, once the call has
\* returned (the codec never having refused a chunk).
C1_RoundTrip ==
    \A id \in StreamIds :
        /\ task[id].call_st = "active" =>
               Written(id) \o task[id].data = task[id].call
        /\ task[id].call_st = "returned" => Written(id) = task[id].call

\* a body of the greatest length has been sent in full, in several chunks
C1_Witness ==
    \E id \in StreamIds :
        /\ task[id].call_st = "returned"
        /\ Len(task[id].call) = MaxBody
        /\ Len(CallFrames(id)) >= 2
        /\ obj[id].bytes_send = MaxBody

RECURSIVE Fits(_, _, _)
\* each chunk of fs has at least one byte and at most as many as the frame
\* limit and as the window read before it, the window being positive then
Fits(fs, window, max_frame) ==
    \/ fs = <<>>
    \/ /\ window > 0
       /\ Len(Head(fs).d) >= 1
       /\ Len(Head(fs).d) <= Min(window, max_frame)
       /\ Fits(Tail(fs), window - Len(Head(fs).d), max_frame)

\* C2: every chunk handed to the codec has at least one byte, at most
\* max_outbound_frame_size bytes, and at most as many bytes as the effective
\* window read at that turn of the loop; with the window zero or negative no
\* chunk is handed over.
C2_ChunkBounds ==
    [][\A id \in StreamIds :
          Fits(NewFrames(id), Effective(id), conn.max_frame)]_vars

\* chunks were sent until the window was used up, and the rest of the body
\* waits with the window at zero or below
C2_Witness ==
    \E id \in StreamIds :
        /\ Len(DataFrames(out[id])) >= 2
        /\ Suspended(id) /\ task[id].fut = "pending"
        /\ task[id].data # <<>>
        /\ Effective(id) <= 0

\* C3: a send_data call suspended for want of window is made ready by the
\* window update that makes the window positive (it never waits with a
\* positive window), and the ready task does run; run, it sends the first
\* min(window, remaining) bytes of what remains, so all of it when the window
\* allows; and when the call has returned the stream holds no flow-control
\* future.  (The task is followed for as long as the connection is: until an
\* exception leaves a callback of the protocol.)
C3_Resume ==
    /\ [](\A id \in StreamIds :
             /\ Suspended(id) /\ task[id].fut = "pending" =>
                    Effective(id) <= 0 /\ obj[id].fcf
             /\ task[id].call_st = "returned" => ~obj[id].fcf)
    /\ [][\A id \in StreamIds :
             Resumed(id) =>
                 LET n == Min(Len(task[id].data), Max(Effective(id), 0)) IN
                 /\ Concat(Payloads(NewFrames(id))) = Take(task[id].data, n)
                 /\ task'[id].data = Drop(task[id].data, n)
                 /\ n = Len(task[id].data) =>
                        task'[id].call_st = "returned" /\ ~obj'[id].fcf]_vars
    /\ \A id \in StreamIds :
           (Suspended(id) /\ task[id].fut = "result")
               ~> (~(Suspended(id) /\ task[id].fut = "result") \/ ~Running)

\* a body longer than any window has been sent in full: the call waited for
\* the window, was resumed, and left no future behind
C3_Witness ==
    \E id \in StreamIds :
        /\ task[id].call_st = "returned"
        /\ Len(task[id].call) > MaxWindow
        /\ Written(id) = task[id].call
        /\ ~obj[id].fcf

\* the step being taken runs the task of stream id
Steps(id) ==
    /\ task[id].st = "new" \/ (task[id].st = "susp" /\ task[id].fut # "pending")
    /\ \/ task'[id].st # task[id].st
       \/ task'[id].fut # task[id].fut
       \/ task'[id].at # task[id].at

\* stream id waits on its own stream-level window, the connection's being
\* open
Starved(id) ==
    /\ Suspended(id) /\ task[id].fut = "pending"
    /\ conn.swin[id] <= 0 /\ conn.cwin > 0

\* C4: with stream a suspended on its exhausted stream-level window, another
\* stream b waits for the window only when its own effective window is zero
\* or below; a step of b's task leaves a's task and stream as they are, a
\* still suspended; and b, resumed with a window that covers what remains of
\* its body, completes its send in that step.
C4_Independent ==
    /\ [](\A a, b \in StreamIds :
             a # b /\ Starved(a) /\ Suspended(b) /\ task[b].fut = "pending"
                 => Effective(b) <= 0)
    /\ [][\A a, b \in StreamIds :
             a # b /\ Starved(a) /\ Steps(b) =>
                 /\ task'[a] = task[a] /\ obj'[a] = obj[a] /\ out'[a] = out[a]
                 /\ Resumed(b) /\ Effective(b) >= Len(task[b].data) =>
                        /\ task'[b].call_st = "returned"
                        /\ Concat(Payloads(NewFrames(b))) = task[b].data]_vars

\* stream a waits on its stream-level window while stream b has sent its
\* whole body
C4_Witness ==
    \E a, b \in StreamIds :
        /\ a # b /\ Starved(a) /\ task[a].data # <<>>
        /\ task[b].call_st = "returned"
        /\ Written(b) = Body(b, MaxBody)

\* everything stream id has sent as DATA, in the order it was written
Sent(id) == Concat(Payloads(DataFrames(out[id])))

\* C5: whatever the interleaving of the streams' tasks, the bytes written for
\* a stream are bytes of that stream's body, in the body's order and without
\* gaps, and with the bytes its send_data call still holds they are the body.
C5_PerStreamOrder ==
    \A id \in StreamIds :
        /\ Sent(id) = Body(id, Len(Sent(id)))
        /\ task[id].call_st \in {"active", "returned"} =>
               Sent(id) \o task[id].data = task[id].body

\* two streams have each written part of their body and wait to write the
\* rest: their chunks interleave on the connection
C5_Witness ==
    \E a, b \in StreamIds :
        /\ a # b
        /\ Suspended(a) /\ Sent(a) # <<>> /\ task[a].data # <<>>
        /\ Suspended(b) /\ Sent(b) # <<>> /\ task[b].data # <<>>

\* C6: of the chunks of a body sent with end_stream requested (a plain
\* response), the chunk that exhausts the body carries the end-of-stream flag
\* and no chunk before it does; of the chunks sent with end_stream not
\* requested (the parts of a streaming response) none carries it; and no
\* stream has the flag on more than one frame.
C6_EndFlag ==
    \A id \in StreamIds :
        LET fs == DataFrames(out[id]) IN
        /\ \A i \in 1..Len(fs) :
               fs[i].es <=>
                   /\ task[id].mode = "plain"
                   /\ Len(Concat(Payloads(SubSeq(fs, 1, i)))) = Len(task[id].body)
        /\ Cardinality({i \in 1..Len(out[id]) : out[id][i].es}) <= 1

\* a plain body went out in several chunks, the last one flagged
C6_Witness ==
    \E id \in StreamIds :
        LET fs == DataFrames(out[id]) IN
        /\ task[id].mode = "plain" /\ task[id].call_st = "returned"
        /\ Len(fs) >= 2
        /\ fs[Len(fs)].es /\ ~fs[1].es

\* the stream has been sent a RST_STREAM with this error code
ResetWith(id, code) ==
    \E i \in 1..Len(out[id]) :
        out[id][i].k = "reset" /\ out[id][i].d = <<code>>

\* the stream's body buffer: request_body while it is open, and what the
\* request took over from it at the end of the stream
Buffer(id) ==
    IF obj[id].body_open THEN obj[id].request_body ELSE obj[id].request_data

C8_Received ==
    /\ [](\A id \in StreamIds :
             /\ obj[id].bytes_received <= MaxRequestSize
             /\ obj[id].bytes_received = Len(Buffer(id)))
    /\ [][\A id \in StreamIds :
             obj'[id].refused # obj[id].refused =>
                 /\ obj'[id].bytes_received = obj[id].bytes_received
                 /\ obj'[id].request_body = obj[id].request_body]_vars

\* a chunk was refused on a stream that holds the bytes accepted before it
C8_Witness ==
    \E id \in StreamIds :
        /\ obj[id].refused # 0
        /\ obj[id].bytes_received > 0
        /\ Len(obj[id].request_body) = obj[id].bytes_received

C10_OneTask ==
    \A id \in StreamIds : obj[id].scheduled <= 1

\* the end of a stream was reported twice: the second report failed and the
\* stream has its one task
C10_Witness ==
    \E id \in StreamIds :
        /\ raised = "AttributeError"
        /\ ~obj[id].body_open
        /\ obj[id].scheduled = 1

\* C11: a stream whose handler task has finished (response sent, handler
\* exception, or cancellation) is no longer in its connection's stream
\* mapping.
C11_Removed ==
    \A id \in StreamIds :
        task[id].st \in {"done", "cancelled"} => id \notin streams

\* every stream of the mapping has had its handler task, and the task has
\* finished
AllFinished ==
    \A id \in streams : task[id].st \in {"done", "cancelled"}

\* C12: after graceful_shutdown, if every in-flight handler task finishes
\* (and nothing raises), the stream mapping eventually becomes empty and
\* wait_shutdown eventually closes the transport.
C12_Drains ==
    <>[](~alive /\ Running /\ sup.st # "failed" /\ AllFinished)
        => <>(streams = {} /\ transport # "open")

\* the step being taken is the one in which wait_shutdown calls
\* transport.close() and ends
SupCloses == sup.st # "done" /\ sup'.st = "done"

\* C13: wait_shutdown calls transport.close() only in a state where the
\* stream mapping is empty; and when that call closes an open transport, no
\* stream that was admitted can still send: the codec has closed each.
C13_ClosesWhenEmpty ==
    [][SupCloses =>
          /\ streams = {}
          /\ transport = "open" =>
                \A id \in StreamIds : obj[id].created => id \in conn.closed]_vars

\* wait_shutdown awaited a stream that was in the mapping at shutdown, and
\* closed the transport itself once the mapping was empty
C13_Witness ==
    /\ sup.st = "done" /\ sup.on # 0
    /\ transport = "closed" /\ ~conn.terminated
    /\ streams = {}

\* the GOAWAY frame of graceful_shutdown has been written
ShutDown == goaway # -1

\* C14: once graceful_shutdown has run, alive is false and stays false, no
\* step adds a stream to the mapping or creates a Stream (a RequestReceived
\* event is ignored and raises nothing), and every stream id in the mapping
\* is at most the last_stream_id of the GOAWAY frame written at shutdown.
C14_NoAdmission ==
    /\ [][ShutDown =>
             /\ ~alive'
             /\ streams' \subseteq streams
             /\ \A id \in StreamIds : obj'[id].created = obj[id].created
             /\ goaway' = goaway
             /\ Receiving /\ conn'.highest # conn.highest => raised' = ""]_vars
    /\ [](ShutDown => ~alive /\ \A id \in streams : id <= goaway)

\* a RequestReceived event came after the shutdown, for a stream id above
\* the GOAWAY's, and was ignored, with an earlier stream still in the mapping
C14_Witness ==
    /\ ~alive /\ Running
    /\ \E a, b \in StreamIds :
          /\ a \in streams /\ a <= goaway
          /\ b > goaway /\ b <= conn.highest
          /\ b \notin streams /\ ~obj[b].created

\* C15: once graceful_shutdown has begun, no streaming response hands a
\* further body chunk to the codec, and a streaming response that has come to
\* its end on a stream the peer still has open has had its end of stream
\* signalled to the codec.
C15_NoChunks ==
    /\ [][ShutDown =>
             \A id \in StreamIds :
                 task[id].mode = "stream" => NewFrames(id) = <<>>]_vars
    /\ [](ShutDown =>
             \A id \in streams :
                 /\ obj[id].streaming /\ task[id].st \in {"done", "cancelled"}
                 /\ transport = "open"
                 => \E k \in 1..Len(out[id]) : out[id][k].k = "end")

\* the whole response of stream id has been handed to the codec: the headers,
\* the full body, and the end of the stream on the last frame
Complete(id) ==
    /\ Len(out[id]) >= 2
    /\ out[id][1].k = "headers" /\ out[id][1].d = <<200>>
    /\ Sent(id) = task[id].body
    /\ out[id][Len(out[id])].es

\* C16: graceful_shutdown leaves the task of every stream that is not
\* streaming as it was; and a plain response of a stream of the mapping whose
\* task has finished after the shutdown (the peer not having ended the
\* connection) went to the codec whole, the transport still open.
C16_PlainSurvives ==
    /\ [][~ShutDown /\ ShutDown' =>
             \A id \in StreamIds :
                 ~obj[id].streaming => task'[id] = task[id]]_vars
    /\ [](ShutDown =>
             \A id \in streams :
                 /\ task[id].mode = "plain" /\ task[id].status = 200
                 /\ task[id].st \in {"done", "cancelled"}
                 /\ ~conn.terminated /\ transport # "lost"
                 => Complete(id) /\ transport = "open")

\* wait_shutdown awaited a stream whose plain response was still to come,
\* and the stream's close woke it once the whole response had been sent
C16_Witness ==
    \E id \in streams :
        /\ sup.st = "susp" /\ sup.on = id /\ sup.fut = "result"
        /\ id <= goaway
        /\ task[id].mode = "plain" /\ task[id].status = 200
        /\ task[id].st \in {"done", "cancelled"}
        /\ Complete(id) /\ Sent(id) = Body(id, DownBody)
        /\ transport = "open"

\* the step being taken is connection_lost
Lost == transport # "lost" /\ transport' = "lost"

\* C17: connection_lost, with or without an error, closes every stream of
\* the mapping (its task reference, its flow-control future and its close
\* waiter are dropped), cancels every handler task that has not finished,
\* empties the mapping and takes the connection out of the handler's set; and
\* the mapping stays empty afterwards.
C17_ConnectionLost ==
    /\ [][Lost =>
             /\ streams' = {}
             /\ ~registered'
             /\ \A id \in streams :
                   /\ ~obj'[id].has_task
                   /\ ~obj'[id].fcf
                   /\ ~obj'[id].close_waiter
                   /\ task[id].st \in {"new", "susp"} =>
                          task'[id].must_cancel \/ task'[id].fut = "cancelled"]_vars
    /\ [](transport = "lost" => streams = {} /\ ~registered)

\* the transport was lost with two streams in the mapping, their tasks
\* waiting: both tasks are cancelled and the mapping is empty
C17_Witness ==
    /\ transport = "lost" /\ streams = {} /\ ~registered
    /\ \A id \in StreamIds :
          /\ obj[id].created /\ id \notin conn.closed
          /\ task[id].st = "susp" /\ task[id].fut = "cancelled"
          /\ ~obj[id].has_task

\* the stream of id was closed: it was taken out of the mapping, or its
\* handler task has come to its end
Closed(id) ==
    obj[id].created /\ (id \notin streams \/ task[id].st \in {"done", "cancelled"})

\* C18: whichever way a stream was closed or removed (peer reset, a body
\* over the limit, connection loss, the end of its handler), it holds no
\* flow-control future afterwards and its task does not wait on one.
C18_Released ==
    \A id \in StreamIds :
        Closed(id) =>
            /\ ~obj[id].fcf
            /\ ~(Suspended(id) /\ task[id].fut = "pending")

\* the transport was lost while the handler waited for a window that was
\* exhausted: the wait was cancelled and the future dropped
C18_Witness ==
    \E id \in StreamIds :
        /\ transport = "lost" /\ Closed(id)
        /\ Effective(id) <= 0
        /\ Suspended(id) /\ task[id].fut = "cancelled"
        /\ ~obj[id].fcf

\* the connection after stream_reset(id) in the current state
AfterReset(id) == stream_reset(Cur, id)

\* C19: stream_reset(id) raises nothing; for a stream of the mapping it takes
\* the stream out, closes it (task reference, flow-control future and close
\* waiter dropped) and cancels its unfinished task, touching nothing else;
\* for an id not in the mapping it changes nothing; and applying it a second
\* time changes nothing more.
C19_ResetIdempotent ==
    \A id \in StreamIds :
        LET R == AfterReset(id) IN
        /\ R.raised = raised
        /\ stream_reset(R, id) = R
        /\ id \notin streams => R = Cur
        /\ id \in streams =>
              /\ R.streams = streams \ {id}
              /\ ~R.obj[id].has_task /\ ~R.obj[id].fcf
              /\ ~R.obj[id].close_waiter
              /\ obj[id].has_task /\ task[id].st \in {"new", "susp"} =>
                     R.task[id].must_cancel \/ R.task[id].fut = "cancelled"
              /\ \A j \in StreamIds \ {id} :
                     R.obj[j] = obj[j] /\ R.task[j] = task[j]
              /\ R.conn = conn /\ R.out = out /\ R.sig = sig
              /\ R.transport = transport /\ R.alive = alive

\* the peer has reset a stream whose handler was waiting for the view: the
\* stream is out of the mapping and its task cancelled, and a second reset
\* finds nothing to do
C19_Witness ==
    \E id \in StreamIds :
        /\ Running
        /\ obj[id].created /\ id \notin streams /\ id \in conn.closed
        /\ obj[id].refused = 0
        /\ task[id].st = "susp" /\ task[id].fut = "cancelled"
        /\ AfterReset(id) = Cur

\* the peer has reset the stream of id: the stream was admitted and is out
\* of the mapping, and not because its body was refused
PeerReset(id) ==
    obj[id].created /\ id \notin streams /\ obj[id].refused = 0

\* C20: once the peer has reset a stream, no request-exception notification
\* is sent for it, and its handler task, when it comes to its end, ends as
\* cancelled.
C20_Cancelled ==
    [][\A id \in StreamIds :
          PeerReset(id) =>
              /\ sig'[id].exc = sig[id].exc
              /\ task[id].st \notin {"done", "cancelled"}
                     /\ task'[id].st \in {"done", "cancelled"}
                 => task'[id].st = "cancelled"]_vars

\* the peer has abandoned the stream of id: it was admitted and has left the
\* mapping by the peer's reset or with the lost connection
Abandoned(id) ==
    obj[id].created /\ id \notin streams /\ obj[id].refused = 0

\* C21: once the peer's reset of a stream, or the loss of the connection,
\* has been processed, no frame of that stream (headers, data, end of
\* stream) is handed to the codec any more.
C21_NoFrames ==
    [][\A id \in StreamIds : Abandoned(id) => out'[id] = out[id]]_vars

\* C22: when the transport is lost with an error, each stream of the mapping
\* gets exactly one request-exception notification carrying that error in
\* the connection_lost step, whether or not it has a task, and no further
\* request-exception notification follows for a stream so notified.
C22_OneNotification ==
    [][/\ Lost =>
             /\ \A id \in streams :
                   /\ sig'[id].lost - sig[id].lost \in {0, 1}
                   /\ sig'[id].exc - sig[id].exc = sig'[id].lost - sig[id].lost
             /\ (\E id \in streams : sig'[id].lost # sig[id].lost) =>
                    \A id \in streams : sig'[id].lost = sig[id].lost + 1
       /\ \A id \in StreamIds :
             sig[id].lost >= 1 => sig'[id].exc = sig[id].exc]_vars

\* the peer has neither reset the stream of id nor ended the connection
Healthy(id) == id \in streams /\ ~conn.terminated

\* the handler task of stream id has come to its end
Ended(id) == task[id].st \in {"done", "cancelled"}

\* C23: a request whose handler raised, in the view before any header was
\* sent or in the body iterator after the headers, has at most one
\* request-exception notification, and exactly one once its task has ended;
\* the task ends, and nothing is raised out of it.  (The peer has neither
\* reset the stream nor ended the connection.)
C23_OneException ==
    /\ [](\A id \in StreamIds :
             task[id].failed # "-" /\ Healthy(id) =>
                 /\ sig[id].exc <= 1
                 /\ Ended(id) => sig[id].exc = 1)
    /\ [][\A id \in StreamIds :
             task'[id].failed # "-" /\ task'[id].st # task[id].st =>
                 raised' = raised]_vars

\* the body iterator raised after the headers and a part had been sent: the
\* task has ended with one notification
C23_Witness ==
    \E id \in StreamIds :
        /\ task[id].failed = "iter" /\ Healthy(id) /\ Ended(id)
        /\ Len(DataFrames(out[id])) >= 1
        /\ sig[id].exc = 1

\* the frames of an empty response with the given status: the headers, then
\* the end of the stream
ErrorResponse(status) ==
    <<[k |-> "headers", d |-> <<status>>, es |-> FALSE],
      [k |-> "end", d |-> <<>>, es |-> TRUE]>>

\* C24: when the view raised, or the timeout expired, before any response
\* header was sent, and the peer neither reset the stream nor ended the
\* connection, the finished task has handed the codec exactly an empty
\* response on that stream: headers with status 500 (504 after the timeout)
\* and then the end of the stream, the codec holding the stream closed.
C24_ErrorResponse ==
    \A id \in StreamIds :
        task[id].failed \in {"view", "timeout"} /\ Healthy(id) /\ Ended(id) =>
            /\ out[id] = ErrorResponse(IF task[id].failed = "timeout"
                                       THEN 504 ELSE 500)
            /\ id \in conn.closed

C24_Witness ==
    \E id \in StreamIds :
        /\ task[id].failed = "timeout" /\ Healthy(id) /\ Ended(id)
        /\ out[id] = ErrorResponse(504)

\* the calls made on the codec for stream id that carry the end of the stream
EndSignals(id) == {i \in 1..Len(out[id]) : out[id][i].es}

\* the task of stream id handed response headers to the codec
Responded(id) == \E i \in 1..Len(out[id]) : out[id][i].k = "headers"

\* C25: the end of a stream is never signalled to the codec twice, and when
\* the task of a stream that sent response headers has ended (normally, by
\* an exception of the body iterator, or cancelled by graceful shutdown), the
\* peer having neither reset the stream nor ended the connection, it was
\* signalled exactly once and nothing was handed to the codec after it.
C25_EndOnce ==
    \A id \in StreamIds :
        /\ Cardinality(EndSignals(id)) <= 1
        /\ Responded(id) /\ Healthy(id) /\ Ended(id) =>
              EndSignals(id) = {Len(out[id])}

C25_Witness ==
    \E id \in StreamIds :
        /\ Responded(id) /\ Healthy(id) /\ task[id].st = "cancelled"
        /\ goaway # -1 /\ obj[id].streaming
        /\ Len(DataFrames(out[id])) >= 1
        /\ EndSignals(id) = {Len(out[id])}

\* the task of stream id entered H2Handler.handle_request
Handled(id) == task[id].rf # "-"

\* C26: request_finished is never sent twice for a request, it is not sent
\* for a request whose task never entered handle_request, and once the task
\* of a request that entered it has ended, in whatever way, it was sent
\* exactly once.
C26_FinishedOnce ==
    \A id \in StreamIds :
        /\ sig[id].finished <= 1
        /\ ~Handled(id) => sig[id].finished = 0
        /\ Handled(id) /\ Ended(id) => sig[id].finished = 1

C26_Witness ==
    \E id \in StreamIds :
        /\ Handled(id) /\ task[id].st = "cancelled"
        /\ task[id].call_st = "cancelled"
        /\ sig[id].finished = 1

\* the codec refused a chunk of the current send_data call of stream id
Broke(id) == task[id].call_st = "broke"

\* C27: in the step in which the codec refuses a chunk of a send_data call,
\* and in every later step while that call is the stream's last, no chunk is
\* handed to the codec for the stream and bytes_send stays as it was; the
\* refusal itself raises nothing out of the step, sends no request_exception
\* and leaves the task unfailed: send_data returns, and the task goes on to
\* what follows the call.
C27_SilentStop ==
    [][\A id \in StreamIds :
          /\ Broke(id)' =>
                /\ NewFrames(id) = <<>>
                /\ obj'[id].bytes_send = obj[id].bytes_send
          /\ ~Broke(id) /\ Broke(id)' =>
                /\ raised' = raised
                /\ sig'[id].exc = sig[id].exc
                /\ task'[id].failed = task[id].failed
                /\ task'[id].st # "cancelled"
                /\ task'[id].mode = "plain" => sig'[id].finished = 1]_vars

C27_Witness ==
    \E id \in StreamIds :
        /\ Broke(id) /\ conn.terminated
        /\ Len(CallFrames(id)) >= 1
        /\ task[id].data # <<>>
        /\ obj[id].bytes_send + Len(task[id].data) = Len(task[id].call)
        /\ sig[id].exc = 0 /\ raised = ""

\* the step leaves the mapping, every Stream and its task, the notifications
\* and the connection as they are, and no exception leaves the callback
Undisturbed ==
    /\ streams' = streams /\ obj' = obj /\ task' = task /\ sig' = sig
    /\ sup' = sup /\ registered' = registered /\ alive' = alive
    /\ transport' = "open" /\ conn'.terminated = conn.terminated
    /\ raised' = ""

\* the RST_STREAM the codec is asked for with PROTOCOL_ERROR
ProtocolErrorReset == [k |-> "reset", d |-> <<"PROTOCOL_ERROR">>, es |-> FALSE]

\* C28: an event for a stream id that is not in the mapping raises nothing
\* and leaves the mapping, every Stream, every task and the connection as
\* they were: DataReceived asks the codec for one reset of that stream with
\* PROTOCOL_ERROR and nothing else, while StreamEnded, StreamReset and
\* WindowUpdated hand nothing to the codec at all.
C28_AbsentLocal ==
    [][\A id \in StreamIds :
          id \notin streams =>
              /\ (\E data \in MuxChunks : DataReceived(id, data)) =>
                    /\ Undisturbed
                    /\ out' = [out EXCEPT ![id] = Append(@, ProtocolErrorReset)]
              /\ (\/ StreamEnded(id)
                  \/ StreamReset(id)
                  \/ \E delta \in 1..MaxWindow : WindowUpdated(id, delta)) =>
                    /\ Undisturbed
                    /\ out' = out]_vars

C28_Witness ==
    \E id \in StreamIds, other \in StreamIds :
        /\ id \notin streams /\ other \in streams
        /\ out[id] = <<ProtocolErrorReset>>
        /\ task[other].st = "susp"
        /\ transport = "open" /\ raised = ""

\* stream id is in the mapping with its task waiting on a flow-control
\* future that is still pending
PendingWait(id) ==
    /\ id \in streams /\ obj[id].fcf
    /\ Suspended(id) /\ task[id].fut = "pending"

\* the step resolves the flow-control future of stream id and drops the
\* stream's handle to it
Released(id) ==
    /\ Suspended(id)' /\ task'[id].fut = "result"
    /\ ~obj'[id].fcf

\* the step is a window update that names no stream: WINDOW_UPDATE on the
\* connection, or a SETTINGS frame that carries INITIAL_WINDOW_SIZE
ConnectionUpdate ==
    \/ \E delta \in 1..MaxWindow : WindowUpdated(0, delta)
    \/ \E initial \in 0..MaxWindow, frame \in 1..MaxFrame :
          SettingsChanged(initial, frame, TRUE)

Accepted(id, data) ==
    obj[id].bytes_received + Len(data) <= MaxRequestSize

\* C30: a DataReceived step for a stream in the mapping adds, when the chunk
\* is accepted, exactly one acknowledgment to those the codec was asked for,
\* on the connection's window (stream 0) and of the chunk's length, and adds
\* none when the chunk is rejected.
C30_Acknowledged ==
    [][\A id \in StreamIds, data \in Chunks :
          id \in streams /\ DataReceived(id, data) =>
              conn'.acks = IF Accepted(id, data)
                           THEN Append(conn.acks,
                                       [stream |-> 0, n |-> Len(data)])
                           ELSE conn.acks]_vars

\* the data_received that closed the transport did so in its except clause
AfterCodecError == wire = <<"write", "close">>

\* stream id never had a handler task
NoHandler(id) == obj[id].scheduled = 0

\* C31: a data_received whose conn.receive_data raises ProtocolError writes
\* the codec's queued bytes to the transport and then closes it, in that
\* order and with no other call; the step hands no event to a stream (the
\* mapping, the Streams, their tasks and their frames stay as they were) and
\* sends no notification, and no request_exception is sent later for a
\* stream that never had a handler task, other than for a transport lost
\* with an exception.
C31_FlushThenClose ==
    /\ [][CodecError =>
              /\ wire' = <<"write", "close">>
              /\ transport' = "closed"
              /\ streams' = streams /\ obj' = obj /\ task' = task
              /\ out' = out /\ sig' = sig /\ raised' = ""]_vars
    /\ [](AfterCodecError =>
              \A id \in StreamIds :
                  NoHandler(id) => sig[id].exc = sig[id].lost)

C31_Witness ==
    /\ AfterCodecError /\ transport = "lost"
    /\ \E id \in StreamIds :
          obj[id].created /\ NoHandler(id) /\ sig[id].exc = 0
    /\ \E id \in StreamIds : ~NoHandler(id)

\* C32: once the data_received that handles ConnectionTerminated has closed
\* the transport, it makes no further call of write on it: in the calls it
\* made, none follows the close.
C32_NoWriteAfterClose ==
    \A i \in 1..Len(wire), j \in 1..Len(wire) :
        wire[i] = "close" /\ j > i => wire[j] # "write"

\* what the current send_data call of stream id handed to the codec
CallOut(id) == SubSeq(out[id], task[id].call_at + 1, Len(out[id]))

\* the call on the codec that ends a stream without data
EndFrame == [k |-> "end", d |-> <<>>, es |-> TRUE]

\* C33: a send_data call for an empty plain body (end of stream requested)
\* that has returned has handed the codec the end of the stream, once, and
\* no data chunk; a send_data call for an empty part of a streaming body
\* (end of stream not requested) hands the codec nothing, counts no byte
\* and leaves the codec and the Stream as they were.
C33_EmptyBody ==
    /\ [](\A id \in StreamIds :
              /\ task[id].mode = "plain" /\ task[id].call = <<>>
              /\ task[id].call_st = "returned"
              => CallOut(id) = <<EndFrame>>)
    /\ [][\A id \in StreamIds :
              StreamPart(id, 0) =>
                  /\ out' = out /\ conn' = conn /\ obj' = obj
                  /\ task'[id].call_st = "returned"
                  /\ task'[id].st = "susp" /\ task'[id].at = "part"]_vars

C33_Witness ==
    \E id \in StreamIds :
        /\ task[id].mode = "plain" /\ task[id].status = 200
        /\ task[id].call = <<>> /\ task[id].call_st = "returned"
        /\ CallOut(id) = <<EndFrame>>

\* C34: whatever events the codec delivers, in whatever order and for
\* whatever stream ids, no exception leaves data_received.
C34_NoException == raised = ""

\* the task of stream id began to iterate a streaming body
Iterating(id) == task[id].iter # "-"

\* C35: a task that began to iterate a streaming body never runs its
\* finalization (end_stream in send_response's finally, close in
\* handle_task's finally) with the iterator still open, and once the task
\* has ended, cancelled by a peer reset, a lost connection or graceful
\* shutdown, or failed by the iterator, the iterator is closed.
C35_IteratorClosed ==
    \A id \in StreamIds :
        /\ task[id].fin \in {"-", "closed"}
        /\ Iterating(id) /\ Ended(id) =>
              task[id].iter = "closed" /\ task[id].fin = "closed"

C35_Witness ==
    \E id \in StreamIds :
        /\ Iterating(id) /\ task[id].st = "cancelled"
        /\ transport = "lost"
        /\ Len(DataFrames(out[id])) >= 1
        /\ task[id].rest # <<>>
        /\ task[id].iter = "closed" /\ task[id].fin = "closed"

\* the task of stream id waits on a flow-control future that is pending: the
\* stream's live wait handle
LiveWait(id) == Suspended(id) /\ task[id].fut = "pending"

\* C36: a stream has at most one task, and so at most one flow-control
\* future that a task waits on; a task that waits on a pending flow-control
\* future waits on the one its stream references; a stream references a
\* future only while its task is suspended on it; and the reference is made
\* only in a step that leaves the stream's window at or below zero.
C36_OneHandle ==
    /\ [](\A id \in StreamIds :
              /\ obj[id].scheduled <= 1
              /\ LiveWait(id) => obj[id].fcf
              /\ obj[id].fcf => Suspended(id))
    /\ [][\A id \in StreamIds :
              ~obj[id].fcf /\ obj'[id].fcf => Effective(id)' <= 0]_vars

C36_Witness ==
    \E id \in StreamIds :
        /\ LiveWait(id) /\ obj[id].fcf
        /\ Effective(id) <= 0
        /\ Len(CallFrames(id)) >= 1
        /\ task[id].data # <<>>

\* C37: graceful_shutdown never fails: it is never cut short by an error, and
\* in every state in which it may still be called every stream of the mapping
\* whose streaming flag is set holds a task handle for it to cancel.
C37_ShutdownCompletes ==
    /\ sup.st # "failed"
    /\ alive => \A id \in streams : obj[id].streaming => obj[id].has_task

\* wait_shutdown is suspended on the close-waiter of a stream, unresolved
Awaiting == sup.st = "susp" /\ sup.fut = "pending"

\* C38: wait_shutdown is never left waiting on a stream whose close has
\* already run for the last time: while its close-waiter is unresolved, the
\* task of the stream it awaits has not ended.
C38_NoLostWakeup == Awaiting => ~Ended(sup.on)

\* the response of stream id was sent completely: the view's response, its
\* headers, its whole body and the end of the stream, on a stream the peer
\* left alone
SentCompletely(id) ==
    /\ Healthy(id) /\ task[id].failed = "-" /\ task[id].status = 200
    /\ Responded(id) /\ EndSignals(id) # {}
    /\ obj[id].bytes_send = Len(task[id].body)

\* C39: a handler task whose response was sent completely, and that has
\* ended, ended normally and not cancelled.
C39_FinishesNormally ==
    \A id \in StreamIds :
        SentCompletely(id) /\ Ended(id) => task[id].st = "done"

\* the step runs the set_result or set_exception that the worker thread of
\* stream id scheduled when get_response ended
Completes(id) == task[id].worker = "busy" /\ task'[id].worker # "busy"

\* C40: the set_result or set_exception that the worker thread scheduled
\* never runs on a response_future that is already done or cancelled.
C40_CompletedOnce ==
    [][\A id \in StreamIds : Completes(id) => ~ResponseFutureDone(id)]_vars

====
